---- MODULE Spec2Model ----
(***************************************************************************)
(* Skill Vision Control: the version lifecycle of one managed unit.        *)
(*                                                                         *)
(* The state is what the program keeps on disk for the unit: its record in *)
(* skills.json, the snapshot directories versions/<unit>/<pool>/<version>  *)
(* with their birth times, and the `active` symlink.  Every action is one  *)
(* command of the CLI (or one tool of the MCP server) run to completion.   *)
(***************************************************************************)
EXTENDS Integers, Sequences, FiniteSets, TLC

VARIABLES
    skill,       \* the unit's record in skills.json
    snaps,       \* the snapshot directories: key -> [createdAt]
    activeLink,  \* the target stored in versions/<unit>/active
    clock,       \* the file system's time, as far as birth times go
    last,        \* the last command run and what it returned
    baseTree,     \* merge input: files of official/<customBase>
    newTree,     \* merge input: files of official/<pending.version>
    customTree,   \* merge input: files of custom/<customBase>-custom
    mergedTree,   \* files of merged/<pending.version>-merged, if it exists
    result,      \* what the last call into the merge engine returned
    awaiting,    \* the call suspended at an await, with the record it read
    versionCache, \* version-cache.json
    store        \* skills.json and versions/ with every unit in them

\* what the version commands read and write
registry == <<skill, snaps, activeLink, clock, last>>
\* what the merge engine reads and writes
engine == <<baseTree, newTree, customTree, mergedTree, result>>

vars == <<skill, snaps, activeLink, clock, last,
          baseTree, newTree, customTree, mergedTree, result, awaiting,
          versionCache, store>>

----------------------------------------------------------------------------
(* Bounds *)

\* upstream publishes versions v1 .. vMaxVersion
MaxVersion == 2
\* no more than MaxClock directories are ever created
MaxClock == 4
\* a cache entry lives cacheDays ticks of the clock
cacheDays == 2

----------------------------------------------------------------------------
(* Version ids, pools and paths *)

Types == {"official", "custom", "merged"}

\* the version ids upstream publishes
Plain(n) == [n |-> n, sfx |-> "plain"]
UpstreamVersions == {Plain(n) : n \in 1..MaxVersion}

\* `${version}-custom`
CustomName(v) == [n |-> v.n, sfx |-> "custom"]
\* `${version}-merged`
MergedName(v) == [n |-> v.n, sfx |-> "merged"]

\* an absent optional string (undefined)
NoVersion == [n |-> 0, sfx |-> "none"]

\* path.join(versionsDir, type, version)
Dir(type, version) == [type |-> type, version |-> version]

\* no `active` entry in the unit's directory (readlink fails)
NoLink == [type |-> "none", version |-> NoVersion]

\* fs.existsSync(dir)
Exists(dir) == dir \in DOMAIN snaps

----------------------------------------------------------------------------
(* The registry record *)

NoPending == [present |-> FALSE, version |-> NoVersion, downloaded |-> FALSE,
              merged |-> FALSE, mergedVersion |-> NoVersion]

NoSkill == [registered |-> FALSE, officialVersion |-> NoVersion,
            activeVersion |-> NoVersion, activeType |-> "none",
            hasCustomChanges |-> FALSE, customBase |-> NoVersion,
            pending |-> NoPending]

\* the record the add command builds
NewSkill(version) ==
    [registered |-> TRUE, officialVersion |-> version,
     activeVersion |-> version, activeType |-> "official",
     hasCustomChanges |-> FALSE, customBase |-> NoVersion,
     pending |-> NoPending]

\* the numeric components of a version string, padded to three: the upstream
\* id vN is N.0.0, and an empty or unknown string parses to 0.0.0
Parts(v) == <<v.n, 0, 0>>

\* the mutant of compareFrom: a smaller component is not looked at
RECURSIVE compareFrom_NoLess(_, _, _)
compareFrom_NoLess(parts1, parts2, i) ==
    IF i > 3 THEN 0
    ELSE IF parts1[i] > parts2[i] THEN 1
    ELSE compareFrom_NoLess(parts1, parts2, i + 1)

\* the loop of compareVersions over the first three components, from i on
RECURSIVE compareFrom(_, _, _)
compareFrom(parts1, parts2, i) ==
    IF i > 3 THEN 0
    ELSE IF parts1[i] > parts2[i] THEN 1
    ELSE IF parts1[i] < parts2[i] THEN -1
    ELSE compareFrom(parts1, parts2, i + 1)

\* compareVersions: three numeric components, the first difference decides
compareVersions(v1, v2) == compareFrom(Parts(v1), Parts(v2), 1)

isNewerVersion(current, latest) == compareVersions(latest, current) > 0

----------------------------------------------------------------------------
(* File system helpers *)

\* ensureDir: mkdir unless the directory exists; a new directory is born now
ensureDir(fs, dir, now) ==
    IF dir \in DOMAIN fs THEN fs
    ELSE [d \in DOMAIN fs \cup {dir} |->
            IF d = dir THEN [createdAt |-> now] ELSE fs[d]]

\* removeDir / fs.rmSync(dir, {recursive, force})
removeDir(fs, dir) == [d \in DOMAIN fs \ {dir} |-> fs[d]]

removeDirs(fs, dirs) == [d \in DOMAIN fs \ dirs |-> fs[d]]

\* createSymlink: existsSync follows the link, so a dangling link is not
\* unlinked and symlinkSync then throws EEXIST
SymlinkThrows(fs, link) == link # NoLink /\ link \notin DOMAIN fs

----------------------------------------------------------------------------
(* getVersions *)

\* one VersionInfo per directory of the three pools
VersionInfos ==
    {[version |-> d.version, type |-> d.type, path |-> d,
      createdAt |-> snaps[d].createdAt, isActive |-> (activeLink = d)]
        : d \in DOMAIN snaps}

\* sort by createdAt, newest first
RECURSIVE SortDesc(_)
SortDesc(S) ==
    IF S = {} THEN <<>>
    ELSE LET newest == CHOOSE x \in S : \A y \in S : y.createdAt <= x.createdAt
         IN  <<newest>> \o SortDesc(S \ {newest})

getVersions == SortDesc(VersionInfos)

\* versions.findIndex(v => v.isActive), 0 when there is none
ActiveIndex(versions) ==
    IF \E i \in 1..Len(versions) : versions[i].isActive
    THEN CHOOSE i \in 1..Len(versions) : versions[i].isActive
    ELSE 0

----------------------------------------------------------------------------
(* manager.ts *)

\* switchVersion without the fs.existsSync(targetDir) test
switchVersion_NoExistsCheck(sk, fs, link, version, type) ==
    IF SymlinkThrows(fs, link)
    THEN [res |-> "throws", skill |-> sk, link |-> link]
    ELSE [res |-> "true",
          skill |-> IF sk.registered
                    THEN [sk EXCEPT !.activeVersion = version,
                                    !.activeType = type]
                    ELSE sk,
          link |-> Dir(type, version)]

\* switchVersion(skillName, version, type) on record sk, directories fs and
\* link target link; res is "false", "true" or "throws" (symlinkSync EEXIST)
switchVersion(sk, fs, link, version, type) ==
    LET targetDir == Dir(type, version) IN
    IF targetDir \notin DOMAIN fs
    THEN [res |-> "false", skill |-> sk, link |-> link]
    ELSE IF SymlinkThrows(fs, link)
    THEN [res |-> "throws", skill |-> sk, link |-> link]
    ELSE [res |-> "true",
          skill |-> IF sk.registered
                    THEN [sk EXCEPT !.activeVersion = version,
                                    !.activeType = type]
                    ELSE sk,
          link |-> targetDir]

\* downloadVersion(skillName, version); fetchOk is whether the clone or the
\* tarball download succeeds.  The fetchers call ensureDir(destPath) before
\* they fetch, so a failed fetch leaves the directory behind.
downloadVersion(sk, fs, now, version, fetchOk) ==
    LET officialDir == Dir("official", version) IN
    IF ~sk.registered
    THEN [res |-> "false", skill |-> sk, fs |-> fs]
    ELSE IF officialDir \in DOMAIN fs
    THEN [res |-> "true", skill |-> sk, fs |-> fs]
    ELSE [res |-> IF fetchOk THEN "true" ELSE "false",
          skill |-> IF fetchOk /\ sk.pending.present
                    THEN [sk EXCEPT !.pending.downloaded = TRUE]
                    ELSE sk,
          fs |-> ensureDir(fs, officialDir, now)]

\* createCustomVersion(skillName): the record is saved before switchVersion
\* runs, so a throwing switchVersion leaves the saved record behind
createCustomVersion(sk, fs, link, now) ==
    LET officialDir   == Dir("official", sk.officialVersion)
        customVersion == CustomName(sk.officialVersion)
        customDir     == Dir("custom", customVersion)
        copied        == ensureDir(fs, customDir, now)
        saved         == [sk EXCEPT !.hasCustomChanges = TRUE,
                                    !.customBase = sk.officialVersion,
                                    !.activeVersion = customVersion,
                                    !.activeType = "custom"]
        sw            == switchVersion(saved, copied, link, customVersion, "custom")
    IN
    IF ~sk.registered \/ officialDir \notin DOMAIN fs
    THEN [res |-> "false", skill |-> sk, fs |-> fs, link |-> link]
    ELSE [res |-> IF sw.res = "throws" THEN "throws" ELSE "true",
          skill |-> sw.skill, fs |-> copied, link |-> sw.link]

\* the VersionInfos of one pool, in the order of versions
OfType(versions, type) == SelectSeq(versions, LAMBDA v : v.type = type)

\* typeVersions.slice(keepCount) when typeVersions.length > keepCount
Excess(typeVersions, keepCount) ==
    IF Len(typeVersions) > keepCount
    THEN {typeVersions[i] : i \in (keepCount + 1)..Len(typeVersions)}
    ELSE {}

\* toRemove without the filter on isActive
toRemove_WithActive(versions, keepCount) ==
    UNION {Excess(OfType(versions, type), keepCount) : type \in Types}

\* cleanupOldVersions: the VersionInfos it removes
toRemove(versions, keepCount) ==
    UNION {{v \in Excess(OfType(versions, type), keepCount) : ~v.isActive}
            : type \in Types}

\* rollbackVersion: the VersionInfo to switch to, when there is one
RollbackFails(versions) ==
    ActiveIndex(versions) = 0 \/ ActiveIndex(versions) >= Len(versions)

\* previousVersion, going two entries down the list when it can
previousVersion_Skip(versions) ==
    versions[IF ActiveIndex(versions) + 2 <= Len(versions)
             THEN ActiveIndex(versions) + 2 ELSE ActiveIndex(versions) + 1]

\* previousVersion, going one entry up the list when it can
previousVersion_Up(versions) ==
    versions[IF ActiveIndex(versions) > 1
             THEN ActiveIndex(versions) - 1 ELSE ActiveIndex(versions) + 1]

previousVersion(versions) == versions[ActiveIndex(versions) + 1]

----------------------------------------------------------------------------
(* merger.ts *)

\* mergeVersions without the hasCustomChanges test, recording
\* pending.merged before it looks for the three directories
mergeVersions_MarksFirst(sk, fs, now, conflicts) ==
    LET baseDir   == Dir("official", IF sk.customBase # NoVersion
                                     THEN sk.customBase ELSE sk.officialVersion)
        newDir    == Dir("official", sk.pending.version)
        customDir == Dir("custom", CustomName(sk.customBase))
        mergedVersion == MergedName(sk.pending.version)
        marked    == [sk EXCEPT !.pending.merged = TRUE,
                                !.pending.mergedVersion = mergedVersion]
    IN
    IF ~sk.registered \/ ~sk.pending.present
    THEN [success |-> FALSE, conflicts |-> 0, mergedVersion |-> NoVersion,
          skill |-> sk, fs |-> fs]
    ELSE IF baseDir \notin DOMAIN fs \/ newDir \notin DOMAIN fs
            \/ customDir \notin DOMAIN fs
    THEN [success |-> FALSE, conflicts |-> 0, mergedVersion |-> NoVersion,
          skill |-> marked, fs |-> fs]
    ELSE [success |-> (conflicts = 0), conflicts |-> conflicts,
          mergedVersion |-> mergedVersion, skill |-> marked,
          fs |-> ensureDir(fs, Dir("merged", mergedVersion), now)]

\* mergeVersions with copyDir(customDir, mergedDir) placed before the test
\* that the three directories exist
mergeVersions_CopiesFirst(sk, fs, now, conflicts) ==
    LET baseDir   == Dir("official", IF sk.customBase # NoVersion
                                     THEN sk.customBase ELSE sk.officialVersion)
        newDir    == Dir("official", sk.pending.version)
        customDir == Dir("custom", CustomName(sk.customBase))
        mergedVersion == MergedName(sk.pending.version)
        copied    == ensureDir(fs, Dir("merged", mergedVersion), now)
    IN
    IF ~sk.registered \/ ~sk.pending.present \/ ~sk.hasCustomChanges
    THEN [success |-> FALSE, conflicts |-> 0, mergedVersion |-> NoVersion,
          skill |-> sk, fs |-> fs]
    ELSE IF baseDir \notin DOMAIN fs \/ newDir \notin DOMAIN fs
            \/ customDir \notin DOMAIN fs
    THEN [success |-> FALSE, conflicts |-> 0, mergedVersion |-> NoVersion,
          skill |-> sk, fs |-> copied]
    ELSE [success |-> (conflicts = 0), conflicts |-> conflicts,
          mergedVersion |-> mergedVersion,
          skill |-> [sk EXCEPT !.pending.merged = TRUE,
                               !.pending.mergedVersion = mergedVersion],
          fs |-> copied]

\* mergeVersions(skillName): which snapshot it writes and what it records.
\* The contents of the three trees decide the conflict list; here they are
\* an input, conflicts being the number of files left with conflict blocks.
mergeVersions(sk, fs, now, conflicts) ==
    LET baseDir   == Dir("official", IF sk.customBase # NoVersion
                                     THEN sk.customBase ELSE sk.officialVersion)
        newDir    == Dir("official", sk.pending.version)
        customDir == Dir("custom", CustomName(sk.customBase))
        mergedVersion == MergedName(sk.pending.version)
        mergedDir == Dir("merged", mergedVersion)
        failed    == [success |-> FALSE, conflicts |-> 0,
                      mergedVersion |-> NoVersion, skill |-> sk, fs |-> fs]
    IN
    IF ~sk.registered \/ ~sk.pending.present \/ ~sk.hasCustomChanges
    THEN failed
    ELSE IF baseDir \notin DOMAIN fs \/ newDir \notin DOMAIN fs
            \/ customDir \notin DOMAIN fs
    THEN failed
    ELSE [success |-> (conflicts = 0), conflicts |-> conflicts,
          mergedVersion |-> mergedVersion,
          skill |-> [sk EXCEPT !.pending.merged = TRUE,
                               !.pending.mergedVersion = mergedVersion],
          fs |-> ensureDir(fs, mergedDir, now)]

----------------------------------------------------------------------------
(* checker.ts *)

\* the source keys of the cache
Sources == {"github:owner/repo", "npm:package"}

\* cache[source] undefined
NoEntry == [version |-> NoVersion, expiresAt |-> 0]

\* the cache of {}
NoEntries == [source \in Sources |-> NoEntry]

\* version-cache.json: whether JSON.parse accepts it, and its entries;
\* a missing file reads as {}
NoCacheFile == [parses |-> TRUE, entries |-> NoEntries]
Malformed == [parses |-> FALSE, entries |-> NoEntries]

\* loadVersionCache(): {} when the file does not parse
loadVersionCache(file) == IF file.parses THEN file.entries ELSE NoEntries

\* getCachedVersion with `now <= expiresAt`
getCachedVersion_AtExpiry(file, source, now) ==
    LET entry == loadVersionCache(file)[source] IN
    IF entry = NoEntry THEN NoVersion
    ELSE IF now <= entry.expiresAt THEN entry.version
    ELSE NoVersion

\* getCachedVersion(source), null as NoVersion
getCachedVersion(file, source, now) ==
    LET entry == loadVersionCache(file)[source] IN
    IF entry = NoEntry THEN NoVersion
    ELSE IF now < entry.expiresAt THEN entry.version
    ELSE NoVersion

\* setCachedVersion(source, version): the file it writes
setCachedVersion(file, source, version, now) ==
    [parses |-> TRUE,
     entries |-> [loadVersionCache(file) EXCEPT ![source] =
                    [version |-> version, expiresAt |-> now + cacheDays]]]

\* getLatestVersion(source, forceRefresh); fetched is what the API query
\* would return (NoVersion for null), queries counts the queries made
getLatestVersion(file, source, forceRefresh, fetched, now) ==
    LET cachedVersion == IF forceRefresh THEN NoVersion
                         ELSE getCachedVersion(file, source, now)
    IN
    IF cachedVersion # NoVersion
    THEN [version |-> cachedVersion, queries |-> 0, file |-> file]
    ELSE [version |-> fetched, queries |-> 1,
          file |-> IF fetched # NoVersion
                   THEN setCachedVersion(file, source, fetched, now)
                   ELSE file]

\* checkSkillUpdate once getLatestVersion has returned latestVersion
checkSkillUpdate(sk, latestVersion) ==
    IF isNewerVersion(sk.officialVersion, latestVersion)
    THEN [sk EXCEPT !.pending = [present |-> TRUE, version |-> latestVersion,
                                 downloaded |-> FALSE, merged |-> FALSE,
                                 mergedVersion |-> NoVersion]]
    ELSE sk

----------------------------------------------------------------------------
(* merger.ts at the level of files: the three input trees and the output *)

\* a file has at most MaxLines lines
MaxLines == 2

\* the relative paths listFiles can return
Files == {"f", "g"}
\* what a line of a file can be
Lines == {"A", "B", "C"}
\* ''.split('\n'): the empty file is one empty line
EmptyFile == <<"">>
\* a file's content is its split('\n'): one line or more
Contents == {EmptyFile} \cup UNION {[1..n -> Lines] : n \in 1..MaxLines}
\* no file at this path
Absent == << >>
\* a directory with no file in it
EmptyTree == [file \in Files |-> Absent]
\* a directory that does not exist
NoDir == [exists |-> FALSE, files |-> EmptyTree]

OfficialMarker == "<<<<<<< OFFICIAL (new version)"
Separator == "======="
CustomMarker == ">>>>>>> CUSTOM (your changes)"

\* readFileContent(path).split('\n'): a missing file reads as ''
readFileContent(dir, file) ==
    IF dir[file] = Absent THEN <<"">> ELSE dir[file]

\* listFiles(dir, true)
listFiles(dir) == {file \in Files : dir[file] # Absent}

\* copyDir(src, dest): every file of src is written over dest's
copyDir(src, dest) ==
    [file \in Files |-> IF src[file] # Absent THEN src[file] ELSE dest[file]]

\* diffDirectories pushing every file the new version changed to
\* `modified`, a conflicting one too
diffDirectories_Overlap(base, new, custom) ==
    LET both == listFiles(base) \cap listFiles(new)
        newChanged(file) ==
            readFileContent(base, file) # readFileContent(new, file)
        customChanged(file) ==
            readFileContent(base, file) # readFileContent(custom, file)
    IN
    [added     |-> listFiles(new) \ listFiles(base),
     deleted   |-> listFiles(base) \ listFiles(new),
     modified  |-> {file \in both : newChanged(file)},
     conflicts |-> {file \in both :
                        /\ newChanged(file) /\ customChanged(file)
                        /\ readFileContent(new, file)
                                # readFileContent(custom, file)}]

\* diffDirectories(baseDir, newDir, customDir)
diffDirectories(base, new, custom) ==
    LET both == listFiles(base) \cap listFiles(new)
        baseContent(file)   == readFileContent(base, file)
        newContent(file)    == readFileContent(new, file)
        customContent(file) == readFileContent(custom, file)
        newChanged(file)    == baseContent(file) # newContent(file)
        customChanged(file) == baseContent(file) # customContent(file)
        conflict(file) == /\ newChanged(file) /\ customChanged(file)
                          /\ newContent(file) # customContent(file)
    IN
    [added     |-> listFiles(new) \ listFiles(base),
     deleted   |-> listFiles(base) \ listFiles(new),
     modified  |-> {file \in both : ~conflict(file) /\ newChanged(file)},
     conflicts |-> {file \in both : conflict(file)}]

\* lines[i] ?? '' (i counts from 1 here, from 0 in the source)
LineAt(lines, i) == IF i <= Len(lines) THEN lines[i] ELSE ""

Max(a, b) == IF a >= b THEN a ELSE b

\* the loop of mergeFile from index i on; acc is what it has built so far
RECURSIVE mergeLoop(_, _, _, _, _)
mergeLoop(baseLines, newLines, customLines, i, acc) ==
    LET maxLen     == Max(Len(baseLines), Max(Len(newLines), Len(customLines)))
        baseLine   == LineAt(baseLines, i)
        newLine    == LineAt(newLines, i)
        customLine == LineAt(customLines, i)
        newChanged    == baseLine # newLine
        customChanged == baseLine # customLine
    IN
    IF i > maxLen THEN acc
    ELSE mergeLoop(baseLines, newLines, customLines, i + 1,
            IF newChanged /\ customChanged /\ newLine # customLine
            THEN [mergedLines  |-> acc.mergedLines \o
                        <<OfficialMarker, newLine, Separator,
                          customLine, CustomMarker>>,
                  hasConflict  |-> TRUE,
                  conflictLine |-> i]
            ELSE [acc EXCEPT !.mergedLines =
                        Append(@, IF customChanged THEN customLine
                                  ELSE IF newChanged THEN newLine
                                  ELSE baseLine)])

\* the loop of mergeFile keeping the custom line, with no conflict block,
\* where both sides changed a line differently
RECURSIVE mergeLoop_NoBlock(_, _, _, _, _)
mergeLoop_NoBlock(baseLines, newLines, customLines, i, acc) ==
    LET maxLen     == Max(Len(baseLines), Max(Len(newLines), Len(customLines)))
        baseLine   == LineAt(baseLines, i)
        newLine    == LineAt(newLines, i)
        customLine == LineAt(customLines, i)
    IN
    IF i > maxLen THEN acc
    ELSE mergeLoop_NoBlock(baseLines, newLines, customLines, i + 1,
            [acc EXCEPT !.mergedLines =
                Append(@, IF baseLine # customLine THEN customLine
                          ELSE IF baseLine # newLine THEN newLine
                          ELSE baseLine)])

mergeFile_NoBlock(baseLines, newLines, customLines) ==
    mergeLoop_NoBlock(baseLines, newLines, customLines, 1,
        [mergedLines |-> << >>, hasConflict |-> FALSE, conflictLine |-> -1])

\* the loop of mergeFile calling every line both sides changed a conflict,
\* alike or not
RECURSIVE mergeLoop_BothChanged(_, _, _, _, _)
mergeLoop_BothChanged(baseLines, newLines, customLines, i, acc) ==
    LET maxLen     == Max(Len(baseLines), Max(Len(newLines), Len(customLines)))
        baseLine   == LineAt(baseLines, i)
        newLine    == LineAt(newLines, i)
        customLine == LineAt(customLines, i)
    IN
    IF i > maxLen THEN acc
    ELSE mergeLoop_BothChanged(baseLines, newLines, customLines, i + 1,
            IF baseLine # newLine /\ baseLine # customLine
            THEN [mergedLines  |-> acc.mergedLines \o
                        <<OfficialMarker, newLine, Separator,
                          customLine, CustomMarker>>,
                  hasConflict  |-> TRUE,
                  conflictLine |-> i]
            ELSE [acc EXCEPT !.mergedLines =
                        Append(@, IF baseLine # customLine THEN customLine
                                  ELSE IF baseLine # newLine THEN newLine
                                  ELSE baseLine)])

mergeFile_BothChanged(baseLines, newLines, customLines) ==
    mergeLoop_BothChanged(baseLines, newLines, customLines, 1,
        [mergedLines |-> << >>, hasConflict |-> FALSE, conflictLine |-> -1])

\* mergeFile(basePath, newPath, customPath, outputPath): the lines it
\* writes to outputPath and the conflict it returns
mergeFile(baseLines, newLines, customLines) ==
    mergeLoop(baseLines, newLines, customLines, 1,
        [mergedLines |-> << >>, hasConflict |-> FALSE, conflictLine |-> -1])

\* nothing returned yet
NoResult == [op |-> "init", ok |-> FALSE, conflicts |-> {},
             addedFiles |-> {}, modifiedFiles |-> {}, rewrote |-> FALSE]

\* mergeVersions whose mergeFile leaves alone an output file that is there
mergeTrees_KeepsMerged(base, new, custom, merged) ==
    LET diff   == diffDirectories(base, new, custom)
        copied == copyDir(custom, merged.files)
        toMerge == diff.modified \cup diff.conflicts
        mf(file) == mergeFile(readFileContent(base, file),
                              readFileContent(new, file),
                              readFileContent(custom, file))
    IN
    [files |-> [file \in Files |->
                    IF file \in toMerge
                    THEN (IF merged.files[file] # Absent
                          THEN merged.files[file] ELSE mf(file).mergedLines)
                    ELSE IF file \in diff.added THEN new[file]
                    ELSE copied[file]],
     conflicts |-> {[file |-> file, lineNumber |-> mf(file).conflictLine] :
                        file \in {x \in toMerge : mf(x).hasConflict}},
     addedFiles    |-> diff.added,
     modifiedFiles |-> diff.modified]

\* mergeVersions from copyDir(customDir, mergedDir) on, the three input
\* directories being there: the files of mergedDir afterwards and the
\* MergeResult (one ConflictInfo for each file mergeFile returned one for)
mergeTrees(base, new, custom, merged) ==
    LET diff   == diffDirectories(base, new, custom)
        copied == copyDir(custom, merged.files)
        toMerge == diff.modified \cup diff.conflicts
        mf(file) == mergeFile(readFileContent(base, file),
                              readFileContent(new, file),
                              readFileContent(custom, file))
    IN
    [files |-> [file \in Files |->
                    IF file \in toMerge THEN mf(file).mergedLines
                    ELSE IF file \in diff.added THEN new[file]
                    ELSE copied[file]],
     conflicts |-> {[file |-> file, lineNumber |-> mf(file).conflictLine] :
                        file \in {x \in toMerge : mf(x).hasConflict}},
     addedFiles    |-> diff.added,
     modifiedFiles |-> diff.modified]

\* the lines of a file that are the opening marker of a conflict block
MarkerLines(lines) == {i \in 1..Len(lines) : lines[i] = OfficialMarker}

\* getConflicts(skillName): one ConflictInfo for every opening marker of
\* every file of mergedDir that holds both markers
getConflicts(merged) ==
    IF ~merged.exists THEN {}
    ELSE UNION {{[file |-> file, lineNumber |-> i] :
                    i \in MarkerLines(merged.files[file])} :
                file \in {x \in listFiles(merged.files) :
                    /\ MarkerLines(merged.files[x]) # {}
                    /\ \E j \in 1..Len(merged.files[x]) :
                            merged.files[x][j] = CustomMarker}}

\* content.replace(conflictPattern, ...): every marker, official line,
\* separator, custom line, marker run is replaced by the chosen side
RECURSIVE replaceConflicts(_, _)
replaceConflicts(lines, resolution) ==
    IF lines = << >> THEN << >>
    ELSE IF /\ Len(lines) >= 5
            /\ lines[1] = OfficialMarker
            /\ lines[3] = Separator
            /\ lines[5] = CustomMarker
    THEN (IF resolution = "official" THEN <<lines[2]>>
          ELSE IF resolution = "custom" THEN <<lines[4]>>
          ELSE <<lines[2], lines[4]>>)
         \o replaceConflicts(SubSeq(lines, 6, Len(lines)), resolution)
    ELSE <<Head(lines)>> \o replaceConflicts(Tail(lines), resolution)

\* a replace that stops after the first match
RECURSIVE replaceFirstConflict(_, _)
replaceFirstConflict(lines, resolution) ==
    IF lines = << >> THEN << >>
    ELSE IF /\ Len(lines) >= 5
            /\ lines[1] = OfficialMarker
            /\ lines[3] = Separator
            /\ lines[5] = CustomMarker
    THEN (IF resolution = "official" THEN <<lines[2]>>
          ELSE IF resolution = "custom" THEN <<lines[4]>>
          ELSE <<lines[2], lines[4]>>)
         \o SubSeq(lines, 6, Len(lines))
    ELSE <<Head(lines)>> \o replaceFirstConflict(Tail(lines), resolution)

resolveConflict_FirstOnly(merged, file, resolution) ==
    IF ~merged.exists \/ merged.files[file] = Absent
    THEN [ok |-> FALSE, merged |-> merged]
    ELSE [ok |-> TRUE,
          merged |-> [merged EXCEPT !.files[file] =
                            replaceFirstConflict(@, resolution)]]

\* a replace whose 'both' puts the custom line first
RECURSIVE replaceConflicts_Reversed(_, _)
replaceConflicts_Reversed(lines, resolution) ==
    IF lines = << >> THEN << >>
    ELSE IF /\ Len(lines) >= 5
            /\ lines[1] = OfficialMarker
            /\ lines[3] = Separator
            /\ lines[5] = CustomMarker
    THEN (IF resolution = "official" THEN <<lines[2]>>
          ELSE IF resolution = "custom" THEN <<lines[4]>>
          ELSE <<lines[4], lines[2]>>)
         \o replaceConflicts_Reversed(SubSeq(lines, 6, Len(lines)), resolution)
    ELSE <<Head(lines)>> \o replaceConflicts_Reversed(Tail(lines), resolution)

resolveConflict_BothReversed(merged, file, resolution) ==
    IF ~merged.exists \/ merged.files[file] = Absent
    THEN [ok |-> FALSE, merged |-> merged]
    ELSE [ok |-> TRUE,
          merged |-> [merged EXCEPT !.files[file] =
                            replaceConflicts_Reversed(@, resolution)]]

\* a pattern whose two sides must each hold a character ([\s\S]+?)
RECURSIVE replaceConflicts_NonEmpty(_, _)
replaceConflicts_NonEmpty(lines, resolution) ==
    IF lines = << >> THEN << >>
    ELSE IF /\ Len(lines) >= 5
            /\ lines[1] = OfficialMarker
            /\ lines[2] # ""
            /\ lines[3] = Separator
            /\ lines[4] # ""
            /\ lines[5] = CustomMarker
    THEN (IF resolution = "official" THEN <<lines[2]>>
          ELSE IF resolution = "custom" THEN <<lines[4]>>
          ELSE <<lines[2], lines[4]>>)
         \o replaceConflicts_NonEmpty(SubSeq(lines, 6, Len(lines)), resolution)
    ELSE <<Head(lines)>> \o replaceConflicts_NonEmpty(Tail(lines), resolution)

resolveConflict_NonEmpty(merged, file, resolution) ==
    IF ~merged.exists \/ merged.files[file] = Absent
    THEN [ok |-> FALSE, merged |-> merged]
    ELSE [ok |-> TRUE,
          merged |-> [merged EXCEPT !.files[file] =
                            replaceConflicts_NonEmpty(@, resolution)]]

\* resolveConflict without the fs.existsSync(filePath) test: a missing
\* file reads as '' and is written
resolveConflict_NoExistsCheck(merged, file, resolution) ==
    IF ~merged.exists
    THEN [ok |-> FALSE, merged |-> merged]
    ELSE [ok |-> TRUE,
          merged |-> [merged EXCEPT !.files[file] =
                replaceConflicts(readFileContent(merged.files, file),
                                 resolution)]]

\* resolveConflict(skillName, file, resolution); there is a pending
\* mergedVersion once mergeVersions has written mergedDir
resolveConflict(merged, file, resolution) ==
    IF ~merged.exists \/ merged.files[file] = Absent
    THEN [ok |-> FALSE, merged |-> merged]
    ELSE [ok |-> TRUE,
          merged |-> [merged EXCEPT !.files[file] =
                            replaceConflicts(@, resolution)]]

----------------------------------------------------------------------------
(* Commands *)

\* the unit names
Units == {"a", "b"}

\* skills.json without a record, versions/ without a directory
NoStore == [skills   |-> [name \in Units |-> NoSkill],
            versions |-> << >>,
            links    |-> [name \in Units |-> NoLink]]

\* no call is suspended
NoCall == [op |-> "none", skill |-> NoSkill]

\* last: the command, what it returned, the number it reported (for a
\* rollback the successful rollbacks in a row so far), for a successful
\* switch the link target it replaced, and for a confirm the downloaded
\* pending version it cleared
Done(op, res) ==
    [op |-> op, res |-> res, n |-> 0, from |-> NoLink, pending |-> NoVersion]

\* the clock ticks when a directory was born; births stop at MaxClock
Born(fs) ==
    /\ clock' = IF DOMAIN fs \subseteq DOMAIN snaps THEN clock ELSE clock + 1
    /\ clock' <= MaxClock

Init ==
    /\ skill = NoSkill
    /\ snaps = << >>
    /\ activeLink = NoLink
    /\ clock = 0
    /\ last = Done("init", "none")
    /\ baseTree = EmptyTree
    /\ newTree = EmptyTree
    /\ customTree = EmptyTree
    /\ mergedTree = NoDir
    /\ result = NoResult
    /\ awaiting = NoCall
    /\ versionCache = NoCacheFile
    /\ store = NoStore

\* svc add, getLatestVersion returning nothing
AddNoVersion ==
    /\ UNCHANGED <<engine, awaiting, versionCache, store>>
    /\ /\ ~skill.registered
       /\ last' = Done("add", "false")
       /\ UNCHANGED <<skill, snaps, activeLink, clock>>

\* svc add <name> --source: save a fresh record, download, switch.
\* The unit is registered once.
Add(version, fetchOk) ==
    /\ UNCHANGED <<engine, awaiting, versionCache, store>>
    /\ LET dl == downloadVersion(NewSkill(version), snaps, clock + 1, version, fetchOk)
           sw == switchVersion(dl.skill, dl.fs, activeLink, version, "official")
       IN
       /\ ~skill.registered
       /\ snaps' = dl.fs
       /\ Born(dl.fs)
       /\ IF dl.res = "true"
          THEN /\ skill' = sw.skill
               /\ activeLink' = sw.link
               /\ last' = Done("add", IF sw.res = "throws" THEN "throws" ELSE "true")
          ELSE /\ skill' = dl.skill
               /\ activeLink' = activeLink
               /\ last' = Done("add", "warn")

\* svc check <name> / svc_check_updates; latestVersion = NoVersion when
\* getLatestVersion returns null
Check(latestVersion) ==
    /\ UNCHANGED <<engine, awaiting, versionCache, store>>
    /\ /\ IF skill.registered /\ latestVersion # NoVersion
          THEN /\ skill' = checkSkillUpdate(skill, latestVersion)
               /\ last' = Done("check",
                       IF isNewerVersion(skill.officialVersion, latestVersion)
                       THEN "hasUpdate" ELSE "upToDate")
          ELSE /\ skill' = skill
               /\ last' = Done("check", "null")
       /\ UNCHANGED <<snaps, activeLink, clock>>

\* svc download <name>: downloadVersion, then the security scan of the
\* downloaded directory; a rejected scan the user does not override
\* removes the directory.  scan is "skipped" under --skip-security, and
\* for svc_download_update and the download command without the scan.
Download(fetchOk, scan, proceed) ==
    /\ UNCHANGED <<engine, awaiting, versionCache, store>>
    /\ LET version     == skill.pending.version
           downloadDir == Dir("official", version)
           dl == downloadVersion(skill, snaps, clock + 1, version, fetchOk)
       IN
       IF ~skill.registered \/ ~skill.pending.present
       THEN /\ last' = Done("download", "none")
            /\ UNCHANGED <<skill, snaps, activeLink, clock>>
       ELSE /\ skill' = dl.skill
            /\ activeLink' = activeLink
            /\ IF dl.res = "false"
               THEN /\ snaps' = dl.fs
                    /\ last' = Done("download", "false")
               ELSE IF scan = "REJECT" /\ ~proceed
               THEN /\ snaps' = removeDir(dl.fs, downloadDir)
                    /\ last' = Done("download", "rejected")
               ELSE IF scan = "REVIEW" /\ ~proceed
               THEN /\ snaps' = dl.fs
                    /\ last' = Done("download", "cancelled")
               ELSE /\ snaps' = dl.fs
                    /\ last' = Done("download", "true")
            /\ Born(snaps')

\* svc switch <name> -v <version> -t <type> / svc_switch_version
Switch(version, type) ==
    /\ UNCHANGED <<engine, awaiting, versionCache, store>>
    /\ LET sw == switchVersion(skill, snaps, activeLink, version, type) IN
       /\ skill' = sw.skill
       /\ activeLink' = sw.link
       /\ last' = [Done("switch", sw.res) EXCEPT
                       !.from = IF sw.res = "true" THEN activeLink ELSE NoLink]
       /\ UNCHANGED <<snaps, clock>>

\* the successful rollbacks that ran one after the other up to now
Successes == IF last.op = "rollback" THEN last.n ELSE 0

\* svc rollback <name> / svc_rollback
rollbackVersion ==
    LET versions == getVersions
        target   == previousVersion(versions)
        sw == switchVersion(skill, snaps, activeLink, target.version, target.type)
    IN
    IF RollbackFails(versions)
    THEN [res |-> "false", skill |-> skill, link |-> activeLink]
    ELSE sw

Rollback ==
    /\ UNCHANGED <<engine, awaiting, versionCache, store>>
    /\ /\ skill' = rollbackVersion.skill
       /\ activeLink' = rollbackVersion.link
       /\ last' = [Done("rollback", rollbackVersion.res) EXCEPT
                       !.n = Successes + IF rollbackVersion.res = "true"
                                         THEN 1 ELSE 0]
       /\ UNCHANGED <<snaps, clock>>

\* svc fork <name>
Fork ==
    /\ UNCHANGED <<engine, awaiting, versionCache, store>>
    /\ LET cv == createCustomVersion(skill, snaps, activeLink, clock + 1) IN
       /\ skill' = cv.skill
       /\ snaps' = cv.fs
       /\ activeLink' = cv.link
       /\ Born(cv.fs)
       /\ last' = Done("fork", cv.res)

\* svc merge <name> (refused unless pending.downloaded) and svc_merge
\* (viaTool: mergeVersions called directly)
Merge(viaTool, conflicts) ==
    /\ UNCHANGED <<engine, awaiting, versionCache, store>>
    /\ LET mv == mergeVersions(skill, snaps, clock + 1, conflicts) IN
       IF ~viaTool /\ (~skill.registered \/ ~skill.pending.downloaded)
       THEN /\ last' = Done("merge", "refused")
            /\ UNCHANGED <<skill, snaps, activeLink, clock>>
       ELSE /\ skill' = mv.skill
            /\ snaps' = mv.fs
            /\ Born(mv.fs)
            /\ activeLink' = activeLink
            /\ last' = [Done("merge", IF mv.success THEN "true" ELSE "false")
                           EXCEPT !.n = mv.conflicts]

\* cleanupOldVersions(skillName, keepCount)
cleanupOldVersions(keepCount) ==
    LET removed == toRemove(getVersions, keepCount) IN
    [fs |-> removeDirs(snaps, {v.path : v \in removed}),
     n  |-> Cardinality(removed)]

\* svc cleanup <name> -k <keep>
Cleanup(keepCount) ==
    /\ UNCHANGED <<engine, awaiting, versionCache, store>>
    /\ /\ snaps' = cleanupOldVersions(keepCount).fs
       /\ last' = [Done("cleanup", "true") EXCEPT
                       !.n = cleanupOldVersions(keepCount).n]
       /\ UNCHANGED <<skill, activeLink, clock>>

\* the keepCount the confirm command passes to cleanupOldVersions
ConfirmKeep == 2
\* the default keepCount of cleanupOldVersions and of svc cleanup
DefaultKeep == 3

\* svc confirm <name>: confirmAction and cleanup are the user's two answers
Confirm(confirmAction, cleanup) ==
    /\ UNCHANGED <<engine, awaiting, versionCache, store>>
    /\ IF ~skill.registered \/ ~confirmAction
       THEN /\ last' = Done("confirm", "none")
            /\ UNCHANGED <<skill, snaps, activeLink, clock>>
       ELSE /\ skill' = [skill EXCEPT
                   !.officialVersion =
                       IF skill.pending.present /\ skill.activeType = "merged"
                       THEN skill.pending.version ELSE @,
                   !.pending = NoPending]
            /\ snaps' = IF cleanup THEN cleanupOldVersions(ConfirmKeep).fs ELSE snaps
            /\ last' = [Done("confirm", "true") EXCEPT
                           !.n = IF cleanup THEN cleanupOldVersions(ConfirmKeep).n
                                 ELSE 0,
                           !.pending = IF skill.pending.downloaded
                                       THEN skill.pending.version
                                       ELSE NoVersion]
            /\ UNCHANGED <<activeLink, clock>>

\* svc test <name> [-v <version>] [--merged]; version = NoVersion when -v
\* is not given
Test(version, merged) ==
    /\ UNCHANGED <<engine, awaiting, versionCache, store>>
    /\ LET useMerged   == merged /\ skill.pending.mergedVersion # NoVersion
           testVersion == IF useMerged THEN skill.pending.mergedVersion
                          ELSE IF version # NoVersion THEN version
                          ELSE skill.activeVersion
           testType    == IF useMerged THEN "merged" ELSE "official"
           sw == switchVersion(skill, snaps, activeLink, testVersion, testType)
       IN
       IF ~skill.registered
       THEN /\ last' = Done("test", "none")
            /\ UNCHANGED <<skill, snaps, activeLink, clock>>
       ELSE /\ skill' = sw.skill
            /\ activeLink' = sw.link
            /\ last' = Done("test", sw.res)
            /\ UNCHANGED <<snaps, clock>>

Recommendations == {"INSTALL", "REVIEW", "REJECT"}

\* the names the snapshots of a pool can have
NamesOf(type) ==
    IF type = "official" THEN UpstreamVersions
    ELSE IF type = "custom" THEN {CustomName(v) : v \in UpstreamVersions}
    ELSE {MergedName(v) : v \in UpstreamVersions}

Next ==
    \/ AddNoVersion
    \/ \E v \in UpstreamVersions : Add(v, TRUE) \/ Add(v, FALSE)
    \/ \E v \in UpstreamVersions \cup {NoVersion} : Check(v)
    \/ \E proceed \in BOOLEAN, scan \in Recommendations \cup {"skipped"} :
            Download(TRUE, scan, proceed)
    \/ Download(FALSE, "skipped", FALSE)
    \/ \E t \in Types : \E v \in NamesOf(t) : Switch(v, t)
    \/ Rollback
    \/ Fork
    \/ \E viaTool \in BOOLEAN, c \in 0..1 : Merge(viaTool, c)
    \/ \E k \in 0..DefaultKeep : Cleanup(k)
    \/ Confirm(FALSE, FALSE)
    \/ \E c \in BOOLEAN : Confirm(TRUE, c)
    \/ \E v \in UpstreamVersions \cup {NoVersion}, m \in BOOLEAN : Test(v, m)

Spec == Init /\ [][Next]_vars

----------------------------------------------------------------------------
(* The merge engine on its own: three input snapshots with any files, *)
(* merged and resolved any number of times                             *)

\* what the second file g is in base, upstream and custom: added upstream,
\* the same file in all three, or changed differently on both sides
\* (the last with files f of one line at most)
BothChangedCase == <<<<"A">>, <<"B">>, <<"C">>>>
SmallFileCases == {<<Absent, <<"A">>, Absent>>,
                   <<<<"A">>, <<"A">>, <<"A">>>>,
                   BothChangedCase}

\* the engine treats all lines alike, so base files are taken up to a
\* renaming of lines: "A" first, "C" only after a "B"
BaseContents ==
    {s \in Contents :
        \/ s = EmptyFile
        \/ /\ s[1] = "A"
           /\ \A i \in DOMAIN s :
                  s[i] = "C" => \E j \in 1..(i - 1) : s[j] = "B"}

MergeInit ==
    /\ skill = NoSkill
    /\ snaps = << >>
    /\ activeLink = NoLink
    /\ clock = 0
    /\ last = Done("init", "none")
    /\ \E b \in BaseContents \cup {Absent}, n, c \in Contents \cup {Absent},
          g \in SmallFileCases :
            /\ g = BothChangedCase => \A x \in {b, n, c} : Len(x) <= 1
            /\ baseTree   = [file \in Files |-> IF file = "f" THEN b ELSE g[1]]
            /\ newTree    = [file \in Files |-> IF file = "f" THEN n ELSE g[2]]
            /\ customTree = [file \in Files |-> IF file = "f" THEN c ELSE g[3]]
    /\ mergedTree = NoDir
    /\ result = NoResult
    /\ awaiting = NoCall
    /\ versionCache = NoCacheFile
    /\ store = NoStore

\* mergeVersions(skillName) with its three input directories present;
\* rewrote tells that the run changed a file of a mergedDir that was there
MergeVersions ==
    LET m == mergeTrees(baseTree, newTree, customTree, mergedTree)
    IN
    /\ mergedTree' = [exists |-> TRUE, files |-> m.files]
    /\ result' = [op |-> "merge", ok |-> (m.conflicts = {}),
                  conflicts |-> m.conflicts,
                  addedFiles |-> m.addedFiles,
                  modifiedFiles |-> m.modifiedFiles,
                  rewrote |-> mergedTree.exists /\ mergedTree.files # m.files]
    /\ UNCHANGED <<baseTree, newTree, customTree>>
    /\ UNCHANGED <<registry, awaiting, versionCache, store>>

\* svc resolve <name> --file <file> --use <resolution>
ResolveConflict(file, resolution) ==
    LET r == resolveConflict(mergedTree, file, resolution)
    IN
    /\ mergedTree' = r.merged
    /\ result' = [NoResult EXCEPT !.op = "resolve", !.ok = r.ok]
    /\ UNCHANGED <<baseTree, newTree, customTree>>
    /\ UNCHANGED <<registry, awaiting, versionCache, store>>

Resolutions == {"official", "custom", "both"}

MergeNext ==
    \/ MergeVersions
    \/ \E file \in Files, resolution \in Resolutions :
            ResolveConflict(file, resolution)

MergeSpec == MergeInit /\ [][MergeNext]_vars

----------------------------------------------------------------------------
(* Forking at the level of files: baseTree is official/<officialVersion>, *)
(* customTree is custom/<officialVersion>-custom, which the user edits    *)

ForkInit ==
    /\ skill = NoSkill
    /\ snaps = << >>
    /\ activeLink = NoLink
    /\ clock = 0
    /\ last = Done("init", "none")
    /\ \E b \in BaseContents, g \in {Absent, <<"A">>} :
            baseTree = [EmptyTree EXCEPT !["f"] = b, !["g"] = g]
    /\ newTree = EmptyTree
    /\ customTree = EmptyTree
    /\ mergedTree = NoDir
    /\ result = NoResult
    /\ awaiting = NoCall
    /\ versionCache = NoCacheFile
    /\ store = NoStore

\* createCustomVersion(skillName): copyDir(officialDir, customDir), whether
\* or not customDir is there already
CreateCustomVersion ==
    /\ listFiles(baseTree) # {}
    /\ customTree' = copyDir(baseTree, customTree)
    /\ result' = [NoResult EXCEPT !.op = "fork", !.ok = TRUE]
    /\ UNCHANGED <<baseTree, newTree, mergedTree>>
    /\ UNCHANGED <<registry, awaiting, versionCache, store>>

\* downloadVersion(skillName, officialVersion): officialDir exists, so the
\* call returns true before any fetch
DownloadExisting ==
    /\ listFiles(baseTree) # {}
    /\ result' = [NoResult EXCEPT !.op = "download", !.ok = TRUE]
    /\ UNCHANGED <<baseTree, newTree, customTree, mergedTree>>
    /\ UNCHANGED <<registry, awaiting, versionCache, store>>

\* the user modifies a file of the custom branch, as svc fork invites
EditCustom(file, content) ==
    /\ listFiles(customTree) # {}
    /\ customTree' = [customTree EXCEPT ![file] = content]
    /\ result' = [NoResult EXCEPT !.op = "edit", !.ok = TRUE]
    /\ UNCHANGED <<baseTree, newTree, mergedTree>>
    /\ UNCHANGED <<registry, awaiting, versionCache, store>>

ForkNext ==
    \/ CreateCustomVersion
    \/ DownloadExisting
    \/ \E file \in Files, content \in Contents : EditCustom(file, content)

ForkSpec == ForkInit /\ [][ForkNext]_vars

----------------------------------------------------------------------------
(* Requests that interleave at an await: checkSkillUpdate and            *)
(* downloadVersion read the record, await the network, and save the      *)
(* record they read; other requests run to completion in between         *)

\* checkSkillUpdate up to `await getLatestVersion`
CheckUpdateBegin ==
    /\ awaiting = NoCall
    /\ versionCache = NoCacheFile
    /\ store = NoStore
    /\ skill.registered
    /\ awaiting' = [op |-> "check", skill |-> skill]
    /\ UNCHANGED <<registry, engine, versionCache, store>>

\* checkSkillUpdate from the await on: saveSkill of the record read before
CheckUpdateEnd(latestVersion) ==
    /\ awaiting.op = "check"
    /\ awaiting' = NoCall
    /\ IF latestVersion # NoVersion
       THEN /\ skill' = checkSkillUpdate(awaiting.skill, latestVersion)
            /\ last' = Done("check",
                    IF isNewerVersion(awaiting.skill.officialVersion, latestVersion)
                    THEN "hasUpdate" ELSE "upToDate")
       ELSE /\ skill' = skill
            /\ last' = Done("check", "null")
    /\ UNCHANGED <<snaps, activeLink, clock, engine, versionCache, store>>

\* downloadVersion up to the fetcher's await: the record is read, the
\* directory is missing, ensureDir creates it
DownloadBegin ==
    LET officialDir == Dir("official", skill.pending.version) IN
    /\ awaiting = NoCall
    /\ versionCache = NoCacheFile
    /\ store = NoStore
    /\ skill.registered
    /\ skill.pending.present
    /\ ~Exists(officialDir)
    /\ snaps' = ensureDir(snaps, officialDir, clock + 1)
    /\ Born(snaps')
    /\ awaiting' = [op |-> "download", skill |-> skill]
    /\ UNCHANGED <<skill, activeLink, last, engine, versionCache, store>>

\* downloadVersion from the await on
DownloadEnd(fetchOk) ==
    /\ awaiting.op = "download"
    /\ awaiting' = NoCall
    /\ skill' = IF fetchOk /\ awaiting.skill.pending.present
                THEN [awaiting.skill EXCEPT !.pending.downloaded = TRUE]
                ELSE skill
    /\ last' = Done("download", IF fetchOk THEN "true" ELSE "false")
    /\ UNCHANGED <<snaps, activeLink, clock, engine, versionCache, store>>

AsyncNext ==
    \/ \E v \in UpstreamVersions : Add(v, TRUE)
    \/ \E v \in UpstreamVersions : Check(v)
    \/ Download(TRUE, "skipped", TRUE)
    \/ \E t \in Types : \E v \in NamesOf(t) : Switch(v, t)
    \/ Fork
    \/ CheckUpdateBegin
    \/ \E v \in UpstreamVersions \cup {NoVersion} : CheckUpdateEnd(v)
    \/ DownloadBegin
    \/ \E fetchOk \in BOOLEAN : DownloadEnd(fetchOk)

AsyncSpec == Init /\ [][AsyncNext]_vars

----------------------------------------------------------------------------
(* The version cache: lookups at any time, with the file damaged at will *)

\* time passes
Tick ==
    /\ clock < MaxClock
    /\ clock' = clock + 1
    /\ UNCHANGED <<skill, snaps, activeLink, last, engine, awaiting,
                   versionCache, store>>

\* getLatestVersion(source, forceRefresh) with the API answering fetched
GetLatestVersion(source, forceRefresh, fetched) ==
    LET r == getLatestVersion(versionCache, source, forceRefresh, fetched, clock)
    IN
    /\ versionCache' = r.file
    /\ last' = [op |-> "latest", res |-> IF r.version = NoVersion
                                         THEN "null" ELSE "version",
                n |-> r.queries, from |-> NoLink, version |-> r.version]
    /\ UNCHANGED <<skill, snaps, activeLink, clock, engine, awaiting, store>>

\* version-cache.json is damaged: JSON.parse throws on it
Corrupt ==
    /\ versionCache' = Malformed
    /\ last' = Done("corrupt", "none")
    /\ UNCHANGED <<skill, snaps, activeLink, clock, engine, awaiting, store>>

CacheNext ==
    \/ Tick
    \/ \E source \in Sources, forceRefresh \in BOOLEAN,
          fetched \in UpstreamVersions \cup {NoVersion} :
            GetLatestVersion(source, forceRefresh, fetched)
    \/ Corrupt

CacheSpec == Init /\ [][CacheNext]_vars

----------------------------------------------------------------------------
(* Several units in one skills.json and one versions/ directory *)

\* getSkill(name): config.skills[name] || null
getSkill(config, name) == config[name]

\* saveSkill writing a config that holds the one record
saveSkill_Alone(config, name, sk) ==
    [other \in Units |-> IF other = name THEN sk ELSE NoSkill]

\* saveSkill(skill): load the config, set config.skills[skill.name], save
saveSkill(config, name, sk) == [config EXCEPT ![name] = sk]

\* removeSkill(name): delete config.skills[name]
removeSkill(config, name) == [config EXCEPT ![name] = NoSkill]

\* the directories under getSkillVersionsDir(name), by pool and version
getSkillVersionsDir(tree, name) ==
    [d \in {p[2] : p \in {q \in DOMAIN tree : q[1] = name}} |-> tree[<<name, d>>]]

\* versions/ once the directories under getSkillVersionsDir(name) are fs
putVersionsDir(tree, name, fs) ==
    [p \in {q \in DOMAIN tree : q[1] # name} \cup {<<name, d>> : d \in DOMAIN fs}
        |-> IF p[1] = name THEN fs[p[2]] ELSE tree[p]]

\* getVersions(skillName) on the directories fs and link target link
getVersionsOf(fs, link) ==
    SortDesc({[version |-> d.version, type |-> d.type, path |-> d,
               createdAt |-> fs[d].createdAt, isActive |-> (link = d)]
                : d \in DOMAIN fs})

\* what a command on unit name leaves behind: the record sk (saved when
\* the command changed it), the unit's directories fs and its link
Ran(name, op, res, sk, fs, link) ==
    /\ store' = [skills   |-> IF sk = getSkill(store.skills, name)
                              THEN store.skills
                              ELSE saveSkill(store.skills, name, sk),
                 versions |-> putVersionsDir(store.versions, name, fs),
                 links    |-> [store.links EXCEPT ![name] = link]]
    /\ clock' = IF DOMAIN fs \subseteq DOMAIN getSkillVersionsDir(store.versions, name)
                THEN clock ELSE clock + 1
    /\ clock' <= MaxClock
    /\ last' = [op |-> op, res |-> res, n |-> 0, from |-> NoLink, unit |-> name]
    /\ UNCHANGED <<skill, snaps, activeLink, engine, awaiting, versionCache>>

UnitsInit ==
    /\ skill = NoSkill
    /\ snaps = << >>
    /\ activeLink = NoLink
    /\ clock = 0
    /\ last = [op |-> "init", res |-> "none", n |-> 0, from |-> NoLink,
               unit |-> "none"]
    /\ baseTree = EmptyTree
    /\ newTree = EmptyTree
    /\ customTree = EmptyTree
    /\ mergedTree = NoDir
    /\ result = NoResult
    /\ awaiting = NoCall
    /\ versionCache = NoCacheFile
    /\ store = NoStore

\* svc add <name>
AddUnit(name, version, fetchOk) ==
    LET fs == getSkillVersionsDir(store.versions, name)
        dl == downloadVersion(NewSkill(version), fs, clock + 1, version, fetchOk)
        sw == switchVersion(dl.skill, dl.fs, store.links[name], version, "official")
    IN
    /\ ~getSkill(store.skills, name).registered
    /\ IF dl.res = "true"
       THEN Ran(name, "add", IF sw.res = "throws" THEN "throws" ELSE "true",
                sw.skill, dl.fs, sw.link)
       ELSE Ran(name, "add", "warn", dl.skill, dl.fs, store.links[name])

\* svc remove <name>, confirmed: the record goes, the directories stay
RemoveUnit(name) ==
    /\ getSkill(store.skills, name).registered
    /\ store' = [store EXCEPT !.skills = removeSkill(@, name)]
    /\ last' = [op |-> "remove", res |-> "true", n |-> 0, from |-> NoLink,
                unit |-> name]
    /\ UNCHANGED <<skill, snaps, activeLink, clock, engine, awaiting,
                   versionCache>>

\* svc check <name>
CheckUnit(name, latestVersion) ==
    LET sk == getSkill(store.skills, name) IN
    IF sk.registered
    THEN Ran(name, "check",
             IF isNewerVersion(sk.officialVersion, latestVersion)
             THEN "hasUpdate" ELSE "upToDate",
             checkSkillUpdate(sk, latestVersion),
             getSkillVersionsDir(store.versions, name), store.links[name])
    ELSE Ran(name, "check", "null", sk,
             getSkillVersionsDir(store.versions, name), store.links[name])

\* svc_download_update: downloadVersion of the pending version
DownloadUnit(name, fetchOk) ==
    LET sk == getSkill(store.skills, name)
        dl == downloadVersion(sk, getSkillVersionsDir(store.versions, name),
                              clock + 1, sk.pending.version, fetchOk)
    IN
    /\ sk.registered
    /\ sk.pending.present
    /\ Ran(name, "download", dl.res, dl.skill, dl.fs, store.links[name])

\* svc switch <name> -v <version> -t <type>
SwitchUnit(name, version, type) ==
    LET sw == switchVersion(getSkill(store.skills, name),
                            getSkillVersionsDir(store.versions, name),
                            store.links[name], version, type)
    IN /\ name \in Units
       /\ Ran(name, "switch", sw.res, sw.skill,
           getSkillVersionsDir(store.versions, name), sw.link)

\* svc rollback <name>
RollbackUnit(name) ==
    LET sk == getSkill(store.skills, name)
        fs == getSkillVersionsDir(store.versions, name)
        versions == getVersionsOf(fs, store.links[name])
        target == previousVersion(versions)
        sw == switchVersion(sk, fs, store.links[name], target.version, target.type)
    IN
    IF RollbackFails(versions)
    THEN Ran(name, "rollback", "false", sk, fs, store.links[name])
    ELSE Ran(name, "rollback", sw.res, sw.skill, fs, sw.link)

\* svc fork <name>
ForkUnit(name) ==
    LET cv == createCustomVersion(getSkill(store.skills, name),
                                  getSkillVersionsDir(store.versions, name),
                                  store.links[name], clock + 1)
    IN /\ name \in Units
       /\ Ran(name, "fork", cv.res, cv.skill, cv.fs, cv.link)

\* svc_merge, the three trees merging without a conflict
MergeUnit(name) ==
    LET mv == mergeVersions(getSkill(store.skills, name),
                            getSkillVersionsDir(store.versions, name),
                            clock + 1, 0)
    IN /\ name \in Units
       /\ Ran(name, "merge", IF mv.success THEN "true" ELSE "false",
           mv.skill, mv.fs, store.links[name])

\* svc cleanup <name> -k <keep>
CleanupUnit(name, keepCount) ==
    LET fs == getSkillVersionsDir(store.versions, name)
        removed == toRemove(getVersionsOf(fs, store.links[name]), keepCount)
    IN /\ name \in Units
       /\ Ran(name, "cleanup", "true", getSkill(store.skills, name),
           removeDirs(fs, {v.path : v \in removed}), store.links[name])

\* every command on unit "a" but its removal; unit "b" is added, switched
\* and removed
UnitsNext ==
    \/ \E name \in Units :
        \/ \E fetchOk \in BOOLEAN : AddUnit(name, Plain(1), fetchOk)
        \/ \E v \in UpstreamVersions : SwitchUnit(name, v, "official")
    \/ RemoveUnit("b")
    \/ \E v \in UpstreamVersions : CheckUnit("a", v)
    \/ DownloadUnit("a", TRUE) \/ DownloadUnit("a", FALSE)
    \/ \E v \in UpstreamVersions : SwitchUnit("a", CustomName(v), "custom")
    \/ \E v \in UpstreamVersions : SwitchUnit("a", MergedName(v), "merged")
    \/ RollbackUnit("a")
    \/ ForkUnit("a")
    \/ MergeUnit("a")
    \/ CleanupUnit("a", 0)

UnitsSpec == UnitsInit /\ [][UnitsNext]_vars

----------------------------------------------------------------------------
(* Claims *)

\* the snapshots getVersions flags isActive
ActiveFlagged == {v \in VersionInfos : v.isActive}

\* C1: the active reference never dangles: once the link is set, its target
\* is an existing snapshot, whatever commands have run since (no command
\* deletes the snapshot that is active).
C1_ActiveSnapshotExists ==
    activeLink # NoLink => activeLink \in DOMAIN snaps

\* C2: once add has returned, getVersions flags exactly one snapshot of the
\* registered unit as isActive.
C2_ExactlyOneActive ==
    skill.registered => Cardinality(ActiveFlagged) = 1

\* C3: the record's (activeType, activeVersion) and the active link name the
\* same snapshot after every completed command.
C3_RecordMatchesLink ==
    skill.registered => activeLink = Dir(skill.activeType, skill.activeVersion)

\* C4: switchVersion to a (pool, version) that has no snapshot returns
\* failure and leaves the active link and the record as they were.
C4_SwitchMissing ==
    [][last'.op = "switch" =>
          \A t \in Types : \A v \in NamesOf(t) :
              (~Exists(Dir(t, v)) /\ Switch(v, t)) =>
                  /\ last'.res = "false"
                  /\ activeLink' = activeLink
                  /\ skill' = skill]_vars

C4_Witness ==
    /\ last.op = "switch" /\ last.res = "false"
    /\ skill.registered
    /\ activeLink \in DOMAIN snaps
    /\ Cardinality(DOMAIN snaps) >= 2

\* the snapshots born before snapshot d
Older(d) == {e \in DOMAIN snaps : snaps[e].createdAt < snaps[d].createdAt}

C6_RollbackUndoesSwitch ==
    [][(last.op = "switch" /\ last.res = "true" /\ last.from \in DOMAIN snaps
            /\ last.from # activeLink /\ Rollback)
        => activeLink' = last.from]_vars

\* the snapshots of d's pool born after d
NewerInPool(d) ==
    {e \in DOMAIN snaps : e.type = d.type
                            /\ snaps[e].createdAt > snaps[d].createdAt}

\* C7: cleanupOldVersions(keep) retains, pool by pool, the keep newest
\* snapshots and the active snapshot, removes every other snapshot, and
\* returns the number of snapshots it removed.
C7_CleanupPerPool ==
    [][last'.op = "cleanup" =>
        \A k \in 0..DefaultKeep :
          Cleanup(k) =>
              /\ DOMAIN snaps' =
                    {d \in DOMAIN snaps :
                        Cardinality(NewerInPool(d)) < k \/ d = activeLink}
              /\ \A d \in DOMAIN snaps' : snaps'[d] = snaps[d]
              /\ last'.n = Cardinality(DOMAIN snaps \ DOMAIN snaps')]_vars

C7_Witness ==
    /\ last.op = "cleanup" /\ last.n >= 1
    /\ activeLink \in DOMAIN snaps
    /\ Cardinality(DOMAIN snaps) >= 2

\* C8: pendingUpdate only moves forward: while an update stays pending and
\* its downloaded snapshot stays in place, its downloaded and merged flags
\* are never reset, and a switch or a rollback leaves pendingUpdate as it
\* was.
C8_PendingForwardOnly ==
    [][/\ (/\ skill.pending.downloaded
           /\ Exists(Dir("official", skill.pending.version))
           /\ skill'.pending.present)
            => skill'.pending.downloaded
       /\ (/\ skill.pending.merged
           /\ Exists(Dir("official", skill.pending.version))
           /\ skill'.pending.present)
            => skill'.pending.merged
       /\ last'.op \in {"switch", "rollback"}
            => skill'.pending = skill.pending]_vars

\* C9: a confirm clears pendingUpdate; confirming a merged snapshot makes
\* the version that snapshot was merged for the officialVersion, and
\* confirming any other snapshot leaves officialVersion as it was.
C9_ConfirmPromotes ==
    [][(skill.registered /\ \E c \in BOOLEAN : Confirm(TRUE, c)) =>
          /\ skill'.pending = NoPending
          /\ IF skill.activeType = "merged"
             THEN MergedName(skill'.officialVersion) = skill.activeVersion
             ELSE skill'.officialVersion = skill.officialVersion]_vars

\* C10: mergeVersions on a unit without custom changes or without a pending
\* update fails with no conflicts, creates no snapshot and leaves the
\* record unchanged; so merged is only ever set with hasCustomChanges.
C10_MergeNeedsCustomChanges ==
    [][/\ (last'.op = "merge"
            /\ (~skill.hasCustomChanges \/ ~skill.pending.present)) =>
          \A viaTool \in BOOLEAN, c \in 0..1 :
            Merge(viaTool, c) =>
                /\ last'.res = IF viaTool \/ skill.pending.downloaded
                               THEN "false" ELSE "refused"
                /\ last'.n = 0
                /\ snaps' = snaps
                /\ skill' = skill
       /\ skill'.pending.merged => skill'.hasCustomChanges]_vars

C10_Witness ==
    /\ last.op = "merge" /\ last.res = "false" /\ last.n = 0
    /\ skill.registered
    /\ skill.pending.present
    /\ ~skill.hasCustomChanges

\* C11: every successful mergeVersions creates a merged snapshot that was
\* not there before and leaves its three inputs as they were; a merge run
\* when the merged snapshot is already there does not overwrite it.
C11_MergeCreatesNew ==
    [][(result'.op = "merge" /\ MergeVersions) =>
          /\ UNCHANGED <<baseTree, newTree, customTree>>
          /\ result'.ok => ~mergedTree.exists
          /\ mergedTree.exists => mergedTree' = mergedTree]_vars

\* the three directories a merge of the unit reads
MergeInputs ==
    {Dir("official", skill.customBase),
     Dir("official", skill.pending.version),
     Dir("custom", CustomName(skill.customBase))}

\* C12: when one of the three merge inputs is absent, mergeVersions returns
\* success=false with no conflicts, creates no merged snapshot and leaves
\* pending.merged and pending.mergedVersion as they were.
C12_MergeMissingInputs ==
    [][(/\ last'.op = "merge"
        /\ skill.registered /\ skill.pending.present /\ skill.hasCustomChanges
        /\ ~(MergeInputs \subseteq DOMAIN snaps)) =>
          \A viaTool \in BOOLEAN, c \in 0..1 :
            (Merge(viaTool, c) /\ (viaTool \/ skill.pending.downloaded)) =>
                /\ last'.res = "false"
                /\ last'.n = 0
                /\ snaps' = snaps
                /\ skill'.pending = skill.pending]_vars

C12_Witness ==
    /\ last.op = "merge" /\ last.res = "false"
    /\ skill.registered /\ skill.pending.downloaded /\ skill.hasCustomChanges
    /\ Dir("custom", CustomName(skill.customBase)) \in DOMAIN snaps
    /\ Dir("official", skill.customBase) \in DOMAIN snaps
    /\ Dir("official", skill.pending.version) \notin DOMAIN snaps

\* the files mergeVersions hands to mergeFile
Reconciled == LET diff == diffDirectories(baseTree, newTree, customTree)
              IN diff.modified \cup diff.conflicts

\* line i of a file, the empty line past its end
Padded(dir, file, i) ==
    LET lines == readFileContent(dir, file)
    IN IF i \in DOMAIN lines THEN lines[i] ELSE ""

\* the number of lines of the longest of the three files at a path
Longest(file) ==
    CHOOSE n \in 1..MaxLines :
        /\ \A dir \in {baseTree, newTree, customTree} :
                Len(readFileContent(dir, file)) <= n
        /\ \E dir \in {baseTree, newTree, customTree} :
                Len(readFileContent(dir, file)) = n

\* line i differs pairwise in base, upstream and local
Conflicting(file, i) ==
    /\ Padded(newTree, file, i) # Padded(baseTree, file, i)
    /\ Padded(customTree, file, i) # Padded(baseTree, file, i)
    /\ Padded(newTree, file, i) # Padded(customTree, file, i)

\* what the merged file holds for line i
Expected(file, i) ==
    IF Conflicting(file, i)
    THEN <<OfficialMarker, Padded(newTree, file, i), Separator,
           Padded(customTree, file, i), CustomMarker>>
    ELSE IF Padded(customTree, file, i) # Padded(baseTree, file, i)
    THEN <<Padded(customTree, file, i)>>
    ELSE IF Padded(newTree, file, i) # Padded(baseTree, file, i)
    THEN <<Padded(newTree, file, i)>>
    ELSE <<Padded(baseTree, file, i)>>

RECURSIVE ExpectedFrom(_, _)
ExpectedFrom(file, i) ==
    IF i > Longest(file) THEN << >>
    ELSE Expected(file, i) \o ExpectedFrom(file, i + 1)

\* C13: a file in the modified or conflicting bucket is merged line index
\* by line index: a conflict block of upstream[i] and local[i] where the
\* three lines differ pairwise, else local[i] if local changed it, else
\* upstream[i] if upstream changed it, else base[i]; without a conflict
\* block every line local changed is local's in the output.
C13_LineReconciliation ==
    result.op = "merge" =>
        \A file \in Reconciled :
            /\ mergedTree.files[file] = ExpectedFrom(file, 1)
            /\ (\A i \in 1..Longest(file) : ~Conflicting(file, i)) =>
                    \A i \in 1..Longest(file) :
                        Padded(customTree, file, i) # Padded(baseTree, file, i)
                            => mergedTree.files[file][i]
                                    = Padded(customTree, file, i)

C13_Witness ==
    /\ result.op = "merge"
    /\ "f" \in Reconciled
    /\ {baseTree["f"], newTree["f"], customTree["f"]} \subseteq Contents \ {EmptyFile}
    /\ Conflicting("f", 1)
    /\ ~Conflicting("f", 2)
    /\ Padded(customTree, "f", 2) # Padded(baseTree, "f", 2)
    /\ Padded(newTree, "f", 2) = Padded(baseTree, "f", 2)

\* C14: when the custom snapshot is identical to the base snapshot the
\* merge reports no conflict and every file of the upstream snapshot has
\* upstream's content in the merged snapshot.
C14_NoLocalEdits ==
    (result.op = "merge" /\ customTree = baseTree) =>
        /\ result.conflicts = {}
        /\ \A file \in listFiles(newTree) :
                mergedTree.files[file] = newTree[file]

\* C15: when the custom snapshot is identical to the upstream snapshot the
\* merge reports no conflict and success, whatever the base is.
C15_LocalEqualsUpstream ==
    (result.op = "merge" /\ customTree = newTree) =>
        result.conflicts = {} /\ result.ok

C15_Witness ==
    /\ result.op = "merge"
    /\ customTree = newTree
    /\ "f" \in Reconciled
    /\ \E i \in 1..Longest("f") :
            Padded(newTree, "f", i) # Padded(baseTree, "f", i)

\* C16: the number of conflicts mergeVersions returns equals the number
\* getConflicts returns on the merged snapshot before any resolveConflict.
C16_ConflictCounts ==
    result.op = "merge" =>
        Cardinality(result.conflicts) = Cardinality(getConflicts(mergedTree))

\* the line indexes of a file at which merge emits a conflict block
ConflictingLines(file) == {i \in 1..Longest(file) : Conflicting(file, i)}

\* C17: for each file merge emits a conflict block in, the conflict record
\* carries the first conflicting line index; success is returned exactly
\* when there is no conflict record.
C17_FirstConflictLine ==
    result.op = "merge" =>
        /\ \A file \in Reconciled :
                ConflictingLines(file) # {} =>
                    \E c \in result.conflicts :
                        /\ c.file = file
                        /\ c.lineNumber \in ConflictingLines(file)
                        /\ \A i \in ConflictingLines(file) : c.lineNumber <= i
        /\ result.ok <=> result.conflicts = {}

\* the files upstream added
AddedFiles == listFiles(newTree) \ listFiles(baseTree)

\* C18: the merged snapshot holds exactly the custom snapshot's files and
\* the files upstream added; added files are upstream's, and a custom file
\* in neither the modified nor the conflicting bucket is custom's.
C18_MergedFileSet ==
    result.op = "merge" =>
        /\ listFiles(mergedTree.files) = listFiles(customTree) \cup AddedFiles
        /\ \A file \in AddedFiles : mergedTree.files[file] = newTree[file]
        /\ \A file \in listFiles(customTree) \ Reconciled :
                mergedTree.files[file] = customTree[file]

\* what diffDirectories returns for the three snapshots
Diff == diffDirectories(baseTree, newTree, customTree)

Buckets == <<Diff.added, Diff.deleted, Diff.modified, Diff.conflicts>>

PairwiseDisjoint ==
    \A i, j \in 1..4 : i # j => Buckets[i] \cap Buckets[j] = {}

\* the paths present in base and in upstream with the same content
Unchanged == {file \in listFiles(baseTree) \cap listFiles(newTree) :
                 baseTree[file] = newTree[file]}

\* C19 as stated: the four buckets of diffDirectories are pairwise disjoint
\* and their union is every path of base or upstream, unchanged ones too.
C19_BucketsCoverAll ==
    result.op = "merge" =>
        /\ PairwiseDisjoint
        /\ result.addedFiles = Diff.added
        /\ result.modifiedFiles = Diff.modified
        /\ UNION {Buckets[i] : i \in 1..4}
                = listFiles(baseTree) \cup listFiles(newTree)

\* C19, amended: the four buckets of diffDirectories are pairwise disjoint
\* and their union is every path of base or upstream except the paths
\* whose content is the same in base and upstream.
C19_BucketsCoverChanges ==
    result.op = "merge" =>
        /\ PairwiseDisjoint
        /\ result.addedFiles = Diff.added
        /\ result.modifiedFiles = Diff.modified
        /\ UNION {Buckets[i] : i \in 1..4}
                = (listFiles(baseTree) \cup listFiles(newTree)) \ Unchanged

C19_Witness ==
    /\ result.op = "merge"
    /\ Unchanged # {}
    /\ Diff.modified # {} \/ Diff.deleted # {}

\* C20: a path is in the conflicting bucket only if the file is present in
\* base, upstream and local with three pairwise different contents; a path
\* whose base and upstream contents differ is in modified exactly when it
\* is not conflicting.
C20_ConflictNeedsLocalFile ==
    result.op = "merge" =>
        /\ \A file \in Diff.conflicts :
                /\ file \in listFiles(baseTree) \cap listFiles(newTree)
                            \cap listFiles(customTree)
                /\ baseTree[file] # newTree[file]
                /\ baseTree[file] # customTree[file]
                /\ newTree[file] # customTree[file]
        /\ \A file \in listFiles(baseTree) \cap listFiles(newTree) :
                baseTree[file] # newTree[file] =>
                    (file \in result.modifiedFiles <=> file \notin Diff.conflicts)

\* the reconciliation of a file in which a conflicting line is upstream's
UpstreamLine(file, i) ==
    IF Conflicting(file, i) THEN <<Padded(newTree, file, i)>>
    ELSE Expected(file, i)

RECURSIVE UpstreamFrom(_, _)
UpstreamFrom(file, i) ==
    IF i > Longest(file) THEN << >>
    ELSE UpstreamLine(file, i) \o UpstreamFrom(file, i + 1)

Markers == {OfficialMarker, Separator, CustomMarker}

\* C21: one resolveConflict(file, 'official') on a reconciled file as the
\* merge wrote it replaces every conflict block: no marker line is left and
\* the file is the reconciliation with upstream's line at each conflict.
C21_OfficialResolvesAll ==
    [][(result'.op = "resolve" /\ mergedTree.exists) =>
        \A file \in Reconciled :
            (/\ mergedTree.files[file] = ExpectedFrom(file, 1)
             /\ ResolveConflict(file, "official"))
            => /\ result'.ok
               /\ mergedTree'.files[file] = UpstreamFrom(file, 1)
               /\ \A i \in DOMAIN mergedTree'.files[file] :
                        mergedTree'.files[file][i] \notin Markers]_vars

C21_Witness ==
    /\ result.op = "resolve"
    /\ result.ok
    /\ Conflicting("f", 1)
    /\ Conflicting("f", 2)
    /\ mergedTree.files["f"]
            = <<Padded(newTree, "f", 1), Padded(newTree, "f", 2)>>

\* C22: whenever hasCustomChanges is set, customBase names an official
\* snapshot that exists, after any sequence of check, download, confirm
\* and cleanup.
C22_CustomBaseExists ==
    skill.hasCustomChanges => Exists(Dir("official", skill.customBase))

\* C23: creating a snapshot that already exists leaves its contents alone:
\* downloadVersion of an existing official version does not change its
\* tree, and createCustomVersion with the custom snapshot already there
\* leaves that snapshot's files, local edits included, unchanged.
C23_ExistingSnapshotNoOp ==
    [][/\ result'.op = "download" => baseTree' = baseTree
       /\ (result'.op = "fork" /\ listFiles(customTree) # {})
            => customTree' = customTree]_vars

\* C24: a failed retrieval registers no official snapshot: the version is
\* not among getVersions afterwards and pending.downloaded stays false, and
\* a download whose fetch would fail never reports success on the strength
\* of a directory that is already there.
C24_FailedFetchRegistersNothing ==
    [][(last'.op = "download" /\ skill.registered /\ skill.pending.present
            /\ Download(FALSE, "skipped", FALSE))
        => /\ last'.res = "false"
           /\ ~skill'.pending.downloaded
           /\ \A i \in DOMAIN getVersions' :
                ~ /\ getVersions'[i].type = "official"
                  /\ getVersions'[i].version = skill.pending.version]_vars

\* C25: the scan verdict comes before registration: when the download
\* command ends with the scan rejected, the pending version is not in the
\* official pool and pending.downloaded is not true.
C25_ScanBeforeRegister ==
    (last.op = "download" /\ last.res = "rejected")
        => /\ ~Exists(Dir("official", skill.pending.version))
           /\ ~skill.pending.downloaded

\* C26: nothing a request wrote to the record while another call on the
\* unit was suspended at its await is undone when that call resumes and
\* saves: the save leaves activeVersion and activeType as they are, and a
\* resumed download leaves the pending version as it is.
C26_NoLostUpdate ==
    [][(awaiting.op # "none" /\ awaiting'.op = "none")
        => /\ skill'.activeVersion = skill.activeVersion
           /\ skill'.activeType = skill.activeType
           /\ awaiting.op = "download"
                => /\ skill'.pending.present = skill.pending.present
                   /\ skill'.pending.version = skill.pending.version]_vars

\* C27: without forceRefresh an entry of the source whose expiry is
\* strictly in the future is returned and the fetcher is not queried; an
\* entry at or past its expiry is not returned; with forceRefresh the
\* cache is not consulted; a malformed cache file behaves as an empty
\* cache and the next cache write replaces it.
C27_CacheLookup ==
    [][last'.op = "latest" =>
        \A source \in Sources, forceRefresh \in BOOLEAN,
           fetched \in UpstreamVersions \cup {NoVersion} :
            GetLatestVersion(source, forceRefresh, fetched) =>
                LET entry == versionCache.entries[source]
                    live  == /\ versionCache.parses
                             /\ entry # NoEntry
                             /\ clock < entry.expiresAt
                IN
                /\ (~forceRefresh /\ live)
                    => /\ last'.version = entry.version
                       /\ last'.n = 0
                       /\ versionCache' = versionCache
                /\ (forceRefresh \/ ~live)
                    => /\ last'.version = fetched
                       /\ last'.n = 1
                /\ (~versionCache.parses /\ fetched # NoVersion)
                    => /\ versionCache'.parses
                       /\ versionCache'.entries =
                            [NoEntries EXCEPT ![source] =
                                [version |-> fetched,
                                 expiresAt |-> clock + cacheDays]]]_vars

C27_Witness ==
    /\ last.op = "latest"
    /\ last.n = 0
    /\ \E source \in Sources :
            /\ versionCache.entries[source].version = last.version
            /\ versionCache.entries[source].expiresAt = clock + 1

\* what skills.json and versions/ hold for one unit
UnitState(st, name) ==
    [skill |-> getSkill(st.skills, name),
     fs    |-> getSkillVersionsDir(st.versions, name),
     link  |-> st.links[name]]

Failures == {"false", "throws", "warn", "null"}

C29_DownloadKeepsOld ==
    [][last'.op = "download" =>
        /\ activeLink' = activeLink
        /\ skill'.activeVersion = skill.activeVersion
        /\ skill'.activeType = skill.activeType
        /\ \A d \in DOMAIN snaps :
                d \in DOMAIN snaps' /\ snaps'[d] = snaps[d]]_vars

\* C30: resolveConflict writes at most the named file of the merged
\* snapshot: without a merged snapshot, or without that file in it, it
\* returns false and writes nothing; otherwise it returns true and every
\* other file of the merged snapshot, the three other snapshots and the
\* registry record are as before.
C30_ResolveFrame ==
    [][result'.op = "resolve" =>
        \A file \in Files, resolution \in Resolutions :
            ResolveConflict(file, resolution) =>
                /\ UNCHANGED <<baseTree, newTree, customTree>>
                /\ UNCHANGED <<skill, snaps, activeLink>>
                /\ mergedTree'.exists = mergedTree.exists
                /\ \A other \in Files \ {file} :
                        mergedTree'.files[other] = mergedTree.files[other]
                /\ IF ~mergedTree.exists \/ mergedTree.files[file] = Absent
                   THEN ~result'.ok /\ mergedTree' = mergedTree
                   ELSE result'.ok]_vars

C30_Witness ==
    /\ result.op = "resolve"
    /\ result.ok
    /\ Conflicting("f", 1)
    /\ mergedTree.files["f"] # ExpectedFrom("f", 1)
    /\ mergedTree.files["g"] # Absent

\* the reconciliation of a file in which a conflicting line is upstream's
\* line followed by local's
BothLines(file, i) ==
    IF Conflicting(file, i)
    THEN <<Padded(newTree, file, i), Padded(customTree, file, i)>>
    ELSE Expected(file, i)

RECURSIVE BothFrom(_, _)
BothFrom(file, i) ==
    IF i > Longest(file) THEN << >>
    ELSE BothLines(file, i) \o BothFrom(file, i + 1)

\* C31: once resolveConflict has been applied to a file, applying it again
\* with any choice leaves the file as it is; and 'both' on a file as the
\* merge wrote it puts upstream's line and then local's line where each
\* conflict was.
C31_ResolveIdempotent ==
    [][(result'.op = "resolve" /\ result'.ok) =>
        \A file \in Files, resolution \in Resolutions :
            ResolveConflict(file, resolution) =>
                /\ \A again \in Resolutions :
                        resolveConflict(mergedTree', file, again).merged
                            = mergedTree'
                /\ (/\ resolution = "both"
                    /\ file \in Reconciled
                    /\ mergedTree.files[file] = ExpectedFrom(file, 1))
                   => mergedTree'.files[file] = BothFrom(file, 1)]_vars

C31_Witness ==
    /\ result.op = "resolve"
    /\ result.ok
    /\ Conflicting("f", 1)
    /\ Conflicting("f", 2)
    /\ mergedTree.files["f"]
            = <<Padded(newTree, "f", 1), Padded(customTree, "f", 1),
                Padded(newTree, "f", 2), Padded(customTree, "f", 2)>>

\* the files getConflicts reports
Reported(merged) == {c.file : c \in getConflicts(merged)}

\* a marker, a line, the separator, a line and the closing marker
HasBlock(lines) ==
    \E i \in 1..Len(lines) :
        /\ i + 4 <= Len(lines)
        /\ lines[i] = OfficialMarker
        /\ lines[i + 2] = Separator
        /\ lines[i + 4] = CustomMarker

\* C32: resolveConflict on a file getConflicts reports takes that file out
\* of the report and puts no file in, so one call per reported file empties
\* it; and a reported file is one that still holds a conflict block, which
\* right after a merge are the files the merge listed as conflicting.
C32_ResolveEmptiesConflicts ==
    [][/\ (result'.op = "resolve" /\ result'.ok) =>
            \A file \in Reported(mergedTree), resolution \in Resolutions :
                ResolveConflict(file, resolution) =>
                    Reported(mergedTree') = Reported(mergedTree) \ {file}
       /\ \A file \in Reported(mergedTree') :
            HasBlock(mergedTree'.files[file])
       /\ result'.op = "merge" =>
            Reported(mergedTree') = {c.file : c \in result'.conflicts}]_vars

C32_Witness ==
    /\ result.op = "resolve"
    /\ result.ok
    /\ Reconciled = {"f", "g"}
    /\ Conflicting("f", 1)
    /\ Conflicting("g", 1)
    /\ mergedTree.files["f"] # ExpectedFrom("f", 1)
    /\ mergedTree.files["g"] # ExpectedFrom("g", 1)
    /\ getConflicts(mergedTree) = {}

\* the component triples a version string can parse to
PartTriples == [1..3 -> 0..MaxVersion]

\* C33: a check reports an update and writes the pending update exactly when
\* the latest upstream version is strictly newer than officialVersion in the
\* three-component comparison, and leaves the pending update alone otherwise;
\* it changes nothing else of the record, no snapshot and not the active
\* reference.  The comparison is antisymmetric; it reads no state, and is
\* evaluated over all component triples at the checks that follow an add.
C33_CheckOnlySetsPending ==
    [][last'.op = "check" =>
        /\ \A latestVersion \in UpstreamVersions :
             Check(latestVersion) /\ skill.registered =>
                /\ (last'.res = "hasUpdate") =
                        (compareVersions(latestVersion, skill.officialVersion) = 1)
                /\ skill'.pending =
                        IF latestVersion.n > skill.officialVersion.n
                        THEN [present |-> TRUE, version |-> latestVersion,
                              downloaded |-> FALSE, merged |-> FALSE,
                              mergedVersion |-> NoVersion]
                        ELSE skill.pending
        /\ skill' = [skill EXCEPT !.pending = skill'.pending]
        /\ snaps' = snaps
        /\ activeLink' = activeLink
        /\ last.op = "add" =>
             \A p, q \in PartTriples :
                compareFrom(p, q, 1) = 0 - compareFrom(q, p, 1)]_vars

\* a check that found nothing newer left a downloaded pending update as it was
C33_Witness ==
    /\ last.op = "check"
    /\ last.res = "upToDate"
    /\ skill.pending.present
    /\ skill.pending.downloaded
    /\ skill.activeType = "custom"


\* C34: while the pending update is marked downloaded, the official snapshot
\* of the pending version exists, whatever downloads (a rejected scan that
\* removes the directory included), cleanups and checks came before.
C34_DownloadedHasSnapshot ==
    (skill.pending.present /\ skill.pending.downloaded) =>
        Exists(Dir("official", skill.pending.version))


\* C35: while the pending update is marked merged, it is marked downloaded
\* too and the merged snapshot named by pending.mergedVersion exists, for
\* merges through the tool as well as through the command, and after cleanup.
C35_MergedHasSnapshot ==
    (skill.pending.present /\ skill.pending.merged) =>
        /\ skill.pending.downloaded
        /\ Exists(Dir("merged", skill.pending.mergedVersion))


\* C36: when the download command's downloadVersion of the pending version
\* returns true, the pending update is marked downloaded afterwards, also
\* when the official snapshot of that version existed before the call.
C36_DownloadMarksDownloaded ==
    [][last'.op = "download" =>
        \A fetchOk \in BOOLEAN :
            \A scan \in Recommendations \cup {"skipped"}, proceed \in BOOLEAN :
                /\ Download(fetchOk, scan, proceed)
                /\ skill.registered
                /\ skill.pending.present
                /\ downloadVersion(skill, snaps, clock + 1,
                                   skill.pending.version, fetchOk).res = "true"
                => skill'.pending.downloaded]_vars


\* C37: once a downloaded pending update was switched to and confirmed, be
\* the confirmed snapshot the merged one or the plain official one of the
\* pending version, a check that sees that same version as the latest
\* reports no update and creates no pending update.
C37_ConfirmedIsUpToDate ==
    [][(/\ last.op = "confirm"
        /\ last.pending # NoVersion
        /\ activeLink \in {Dir("official", last.pending),
                            Dir("merged", MergedName(last.pending))}
        /\ Exists(activeLink)
        /\ last'.op = "check"
        /\ Check(last.pending))
       => /\ last'.res = "upToDate"
          /\ ~skill'.pending.present]_vars


FirstRun == mergeTrees(baseTree, newTree, customTree, NoDir)

\* C39: with the three input snapshots as they were, every run of
\* mergeVersions, the runs after resolveConflict calls on the merged
\* snapshot included, leaves the merged tree, the conflict list and the
\* added and modified lists of the first run.
C39_MergeRepeatable ==
    [][result'.op = "merge" =>
        /\ UNCHANGED <<baseTree, newTree, customTree>>
        /\ mergedTree'.exists
        /\ mergedTree'.files = FirstRun.files
        /\ result'.conflicts = FirstRun.conflicts
        /\ result'.addedFiles = FirstRun.addedFiles
        /\ result'.modifiedFiles = FirstRun.modifiedFiles
        /\ result'.ok = (FirstRun.conflicts = {})]_vars

\* a run over a merged snapshot whose conflicts had been resolved put the
\* two conflicting files back
C39_Witness ==
    /\ result.op = "merge"
    /\ result.rewrote
    /\ {c.file : c \in result.conflicts} = {"f", "g"}
    /\ result.addedFiles = {}
    /\ Reported(mergedTree) = {"f", "g"}

====
